---- MODULE Spec2Model ----
(***************************************************************************)
(* Data-grid engine of app/core/ui/tables.py: the SmartTableController     *)
(* (paging / search / filter / sort state, request ids, loading flag), the *)
(* fetch tasks it hands to the thread pool, the completions that come back *)
(* through the ok / fail signals, and the AppTable listener that applies a *)
(* published page to the SmartTableModel.                                  *)
(***************************************************************************)
EXTENDS Integers, Sequences, FiniteSets, TLC

(* ------------------------------------------------------------------ *)
(* Bounds of the exploration                                           *)
(* ------------------------------------------------------------------ *)
\* number of controller operations called in one behaviour
MaxCalls == 3
\* largest total_rows a data source answers with
MaxTotal == 3
\* longest filter list add_filter may build
MaxFilters == 2
\* largest total_rows and page_size total_pages is evaluated for
MaxRows == 9
MaxSize == 5
\* largest number of rows a data source of an export holds
MaxExportRows == 5
\* largest chunk_page_size of an export request
MaxChunk == 2

(* ------------------------------------------------------------------ *)
(* Program constants                                                   *)
(* ------------------------------------------------------------------ *)
\* SmartTableController.__init__: self._page_size = 50
DefaultPageSize == 50

(* ------------------------------------------------------------------ *)
(* Inputs                                                              *)
(* ------------------------------------------------------------------ *)
\* characters: upper/lower case, with and without an acute accent
Chars == {"a", "A", "a'", "A'"}

\* texts handed to set_search
Texts == { <<>>, <<"A'">>, <<"a">> }

\* (text, mode, case_sensitive, accent_insensitive) of a set_search call
SearchArgs ==
    { [text |-> t, mode |-> "contem", cs |-> FALSE, ai |-> TRUE] : t \in Texts }
    \cup { [text |-> <<"A'">>, mode |-> "regex", cs |-> TRUE, ai |-> FALSE] }

FilterSpecs == { [key |-> "active", op |-> "igual", value |-> "true"],
                 [key |-> "name", op |-> "contem", value |-> "x"] }

\* filter lists handed to set_filters
FilterLists == { <<>>, <<[key |-> "active", op |-> "igual", value |-> "true"]>> }

\* sort lists handed to set_sort
SortLists == { <<>>, <<[key |-> "name", ascending |-> TRUE]>> }

\* key lists handed to set_searchable_keys
KeyLists == { <<>>, <<"name">> }

\* integers handed to set_page_size
SizeArgs == {-1, 0, 1, 2}

\* integers handed to goto_page
PageArgs == {-1, 0, 1, 2}

\* total_rows values of the pages a data source returns
Totals == {0, MaxTotal}

(* ------------------------------------------------------------------ *)
(* State                                                               *)
(* ------------------------------------------------------------------ *)
VARIABLES
    page,               \* SmartTableController._page
    page_size,          \* SmartTableController._page_size
    total_rows,         \* SmartTableController._total_rows
    search_text,        \* SmartTableController._search_text
    search_mode,        \* SmartTableController._search_mode
    case_sensitive,     \* SmartTableController._case_sensitive
    accent_insensitive, \* SmartTableController._accent_insensitive
    filters,            \* SmartTableController._filters
    sort,               \* SmartTableController._sort
    searchable_keys,    \* SmartTableController._searchable_keys
    request_id,         \* SmartTableController._request_id
    loading,            \* SmartTableController._loading
    append_mode,        \* SmartTableController._append_mode
    pool,               \* fetch tasks started on the thread pool, not yet completed and handled
    emitted,            \* signals emitted by the last handler, in order
    rows,               \* SmartTableModel._rows of the listening AppTable
    shown,              \* the page the listener applied last, <<>> before the first
    op,                 \* the handler that ran last
    arg,                \* the argument it was called with (a completion: its fetch task)
    nCalls,             \* number of controller operations called so far
    out,                \* value returned by the last query method called, <<>> before
    req,                \* execute: the ExportRequest
    data_port,          \* execute: <<>> for None, <<n>> for a data source of n matching rows
    current_page_rows,  \* execute: <<>> for None, <<rows>> for the rows given
    progress,           \* execute: whether a progress callback is given
    x_pc,               \* where the call of execute stands
    x_error,            \* the exception execute ended with, "" when none
    first_page,         \* execute / _iter_all_results: first_page, <<>> before it is fetched
    chunk_pg,           \* _iter_all_results: pg, <<>> before the first later chunk
    x_total,            \* execute / generators: total
    done,               \* generators: done
    chunk_no,           \* _iter_all_results: page
    gen,                \* where the row generator is suspended
    idx,                \* position in the rows being iterated of the row yielded last
    exported,           \* exporter: exported
    result,             \* the ExportResult returned, <<>> before
    fetch_log,          \* the calls of fetch_page of the data source: query and outcome
    yielded,            \* the rows the generator yielded to the exporter
    progress_calls,     \* the (done, total) pairs progress was called with
    exporter_calls,     \* number of calls of exporter.export
    consistent,         \* the data source answered every fetch with the true slice
    port_rows           \* InMemoryTablePort._rows, <<>> where the data source is any other

ctl == <<page, page_size, total_rows, search_text, search_mode, case_sensitive,
         accent_insensitive, filters, sort, searchable_keys, request_id,
         loading, append_mode>>

vars == <<page, page_size, total_rows, search_text, search_mode, case_sensitive,
          accent_insensitive, filters, sort, searchable_keys, request_id,
          loading, append_mode, pool, emitted, rows, shown, op, arg, nCalls,
          out, req, data_port, current_page_rows, progress, x_pc, x_error,
          first_page, chunk_pg, x_total, done, chunk_no, gen, idx, exported, result,
          fetch_log, yielded, progress_calls, exporter_calls, consistent,
          port_rows>>

\* the state of a call of ExportTableUseCase.execute
xvars == <<req, data_port, current_page_rows, progress, x_pc, x_error,
           first_page, chunk_pg, x_total, done, chunk_no, gen, idx, exported, result,
           fetch_log, yielded, progress_calls, exporter_calls, consistent>>

\* the controller, its pool and its listener
gridvars == <<ctl, pool, emitted, rows, shown, op, arg, nCalls>>

\* what the operations and the completions of the controller leave alone
others == <<out, xvars, port_rows>>

(* ------------------------------------------------------------------ *)
(* Helpers                                                             *)
(* ------------------------------------------------------------------ *)
Max(a, b) == IF a >= b THEN a ELSE b

\* math.ceil(a / b) for a >= 0, b >= 1
Ceil(a, b) == (a + b - 1) \div b

\* str.lower, per character
LowerChar(c) ==
    CASE c = "A" -> "a" [] c = "A'" -> "a'" [] c = "T" -> "t" [] c = "F" -> "f"
      [] OTHER -> c
Lower(s) == [i \in 1..Len(s) |-> LowerChar(s[i])]

\* _norm_text: NFKD decomposition, combining marks dropped
StripChar(c) == CASE c = "a'" -> "a" [] c = "A'" -> "A" [] OTHER -> c
NormText(s, ai) ==
    IF ~ai THEN s ELSE [i \in 1..Len(s) |-> StripChar(s[i])]

\* total_pages with the quotient rounded down
TotalPagesFloor ==
    IF page_size <= 0 THEN 1 ELSE Max(1, total_rows \div page_size)

\* SmartTableController.total_pages
TotalPages ==
    IF page_size <= 0 THEN 1 ELSE Max(1, Ceil(total_rows, page_size))

\* SmartTableController._make_query
MakeQuery ==
    LET s1 == IF ~case_sensitive THEN Lower(search_text) ELSE search_text
        s2 == IF accent_insensitive THEN NormText(s1, TRUE) ELSE s1
    IN [page |-> page, page_size |-> page_size, search_text |-> s2,
        search_mode |-> search_mode,
        search_case_sensitive |-> case_sensitive,
        search_accent_insensitive |-> accent_insensitive,
        filters |-> filters, sort |-> sort,
        searchable_keys |-> searchable_keys]

\* the signals of the controller
LoadingChanged(v) == [sig |-> "loading_changed", arg |-> v]
Changed(pg, rid) == [sig |-> "changed", arg |-> <<pg, rid>>]
Error(msg) == [sig |-> "error", arg |-> msg]

\* _FetchTask: the query snapshot and the request id it was built with;
\* append is the flag refresh was called with for this task
FetchTask(q, rid, app) == [query |-> q, request_id |-> rid, append |-> app]

\* the TablePage a data source answers a query with: total rows matching
\* the query, and the rows of the slice (page-1)*page_size .. page*page_size,
\* named by the page they belong to (none when the slice is empty)
TablePage(q, total) ==
    [rows |-> IF (q.page - 1) * q.page_size < total THEN <<q.page>> ELSE <<>>,
     total_rows |-> total, page |-> q.page, page_size |-> q.page_size]

(* ------------------------------------------------------------------ *)
(* Initial state: SmartTableController.__init__, SmartTableModel.__init__ *)
(* ------------------------------------------------------------------ *)
ControllerInit ==
    /\ page = 1
    /\ page_size = DefaultPageSize
    /\ total_rows = 0
    /\ search_text = <<>>
    /\ search_mode = "contem"
    /\ case_sensitive = FALSE
    /\ accent_insensitive = TRUE
    /\ filters = <<>>
    /\ sort = <<>>
    /\ searchable_keys = <<>>
    /\ request_id = 0
    /\ loading = FALSE
    /\ append_mode = FALSE
    /\ pool = {}
    /\ emitted = <<>>
    /\ rows = <<>>
    /\ shown = <<>>
    /\ op = "init"
    /\ arg = "none"
    /\ nCalls = 0

\* no export has been asked for
NoExport ==
    /\ req = <<>>
    /\ data_port = <<>>
    /\ current_page_rows = <<>>
    /\ progress = FALSE
    /\ x_pc = "idle"
    /\ x_error = ""
    /\ first_page = <<>>
    /\ chunk_pg = <<>>
    /\ x_total = 0
    /\ done = 0
    /\ chunk_no = 0
    /\ gen = "none"
    /\ idx = 0
    /\ exported = 0
    /\ result = <<>>
    /\ fetch_log = <<>>
    /\ yielded = <<>>
    /\ progress_calls = <<>>
    /\ exporter_calls = 0
    /\ consistent = TRUE

\* the data source is not the reference in-memory one
NoPort == port_rows = <<>>

Init ==
    /\ ControllerInit
    /\ out = <<>>
    /\ NoExport
    /\ NoPort

(* ------------------------------------------------------------------ *)
(* Controller internals                                                *)
(* ------------------------------------------------------------------ *)
\* _emit_loading that notifies without recording the flag
EmitLoadingKeepsFlag(v, after) ==
    IF loading = v
    THEN /\ loading' = loading
         /\ emitted' = after
    ELSE /\ loading' = loading
         /\ emitted' = <<LoadingChanged(v)>> \o after

\* SmartTableController._emit_loading(v), followed by the signals the
\* calling handler emits after it
EmitLoading(v, after) ==
    IF loading = v
    THEN /\ loading' = loading
         /\ emitted' = after
    ELSE /\ loading' = v
         /\ emitted' = <<LoadingChanged(v)>> \o after

\* refresh announcing the load before it tests whether one is running
RefreshSignalsFirst(append) ==
    IF loading
    THEN /\ UNCHANGED <<append_mode, request_id, loading, pool>>
         /\ emitted' = <<LoadingChanged(TRUE)>>
    ELSE /\ append_mode' = append
         /\ request_id' = request_id + 1
         /\ loading' = TRUE
         /\ emitted' = <<LoadingChanged(TRUE)>>
         /\ pool' = pool \cup {FetchTask(MakeQuery', request_id', append)}

\* refresh with the request id advanced before the loading check
RefreshCountsFirst(append) ==
    IF loading
    THEN /\ request_id' = request_id + 1
         /\ UNCHANGED <<append_mode, loading, pool>>
         /\ emitted' = <<>>
    ELSE /\ append_mode' = append
         /\ request_id' = request_id + 1
         /\ EmitLoading(TRUE, <<>>)
         /\ pool' = pool \cup {FetchTask(MakeQuery', request_id', append)}

\* SmartTableController.refresh(append); the caller has already fixed the
\* next value of every field that _make_query reads
Refresh(append) ==
    IF loading
    THEN /\ UNCHANGED <<append_mode, request_id, loading, pool>>
         /\ emitted' = <<>>
    ELSE /\ append_mode' = append
         /\ request_id' = request_id + 1
         /\ EmitLoading(TRUE, <<>>)
         /\ pool' = pool \cup {FetchTask(MakeQuery', request_id', append)}

\* a call of a controller operation: counted, nothing reaches the listener
Call(name, a) ==
    /\ nCalls < MaxCalls
    /\ nCalls' = nCalls + 1
    /\ op' = name
    /\ arg' = a
    /\ UNCHANGED <<total_rows, rows, shown>>
    /\ UNCHANGED others

\* goto_page that moves to the page only when it is going to fetch it
GotoPageBodyIfIdle(p) ==
    /\ page' = IF loading THEN page ELSE Max(1, p)
    /\ Refresh(FALSE)

\* SmartTableController.goto_page(p), without the bookkeeping of Call
GotoPageBody(p) ==
    /\ page' = Max(1, p)
    /\ Refresh(FALSE)

(* ------------------------------------------------------------------ *)
(* Controller operations                                               *)
(* ------------------------------------------------------------------ *)
\* SmartTableController.refresh called directly (AppTable.refresh)
RefreshCall(append) ==
    /\ Call("refresh", append)
    /\ UNCHANGED <<page, page_size, search_text, search_mode, case_sensitive,
                   accent_insensitive, filters, sort, searchable_keys>>
    /\ Refresh(append)

GotoPage(p) ==
    /\ Call("goto_page", p)
    /\ UNCHANGED <<page_size, search_text, search_mode, case_sensitive,
                   accent_insensitive, filters, sort, searchable_keys>>
    /\ GotoPageBody(p)

SetSearchableKeys(keys) ==
    /\ Call("set_searchable_keys", keys)
    /\ searchable_keys' = keys
    /\ UNCHANGED <<page_size, search_text, search_mode, case_sensitive,
                   accent_insensitive, filters, sort>>
    /\ GotoPageBody(1)

\* set_page_size without the clamp to 1
SetPageSizeUnclamped(size) ==
    /\ Call("set_page_size", size)
    /\ page_size' = size
    /\ UNCHANGED <<search_text, search_mode, case_sensitive,
                   accent_insensitive, filters, sort, searchable_keys>>
    /\ GotoPageBody(1)

SetPageSize(size) ==
    /\ Call("set_page_size", size)
    /\ page_size' = Max(1, size)
    /\ UNCHANGED <<search_text, search_mode, case_sensitive,
                   accent_insensitive, filters, sort, searchable_keys>>
    /\ GotoPageBody(1)

SetSearch(a) ==
    /\ Call("set_search", a)
    /\ search_text' = a.text
    /\ search_mode' = a.mode
    /\ case_sensitive' = a.cs
    /\ accent_insensitive' = a.ai
    /\ UNCHANGED <<page_size, filters, sort, searchable_keys>>
    /\ GotoPageBody(1)

SetFilters(fs) ==
    /\ Call("set_filters", fs)
    /\ filters' = fs
    /\ UNCHANGED <<page_size, search_text, search_mode, case_sensitive,
                   accent_insensitive, sort, searchable_keys>>
    /\ GotoPageBody(1)

AddFilter(spec) ==
    /\ Len(filters) < MaxFilters
    /\ Call("add_filter", spec)
    /\ filters' = Append(filters, spec)
    /\ UNCHANGED <<page_size, search_text, search_mode, case_sensitive,
                   accent_insensitive, sort, searchable_keys>>
    /\ GotoPageBody(1)

ClearFilters ==
    /\ Call("clear_filters", "none")
    /\ filters' = <<>>
    /\ UNCHANGED <<page_size, search_text, search_mode, case_sensitive,
                   accent_insensitive, sort, searchable_keys>>
    /\ GotoPageBody(1)

SetSort(s) ==
    /\ Call("set_sort", s)
    /\ sort' = s
    /\ UNCHANGED <<page_size, search_text, search_mode, case_sensitive,
                   accent_insensitive, filters, searchable_keys>>
    /\ GotoPageBody(1)

\* the fields no paging operation touches
QueryFieldsUnchanged ==
    UNCHANGED <<page_size, search_text, search_mode, case_sensitive,
                accent_insensitive, filters, sort, searchable_keys>>

\* nothing of the controller, the pool or the listener changes
NoEffect ==
    /\ UNCHANGED <<page, append_mode, request_id, loading, pool>>
    /\ emitted' = <<>>

\* next_page without the test of the last page
NextPageUnbounded ==
    /\ Call("next_page", "none")
    /\ QueryFieldsUnchanged
    /\ page' = page + 1
    /\ Refresh(FALSE)

NextPage ==
    /\ Call("next_page", "none")
    /\ QueryFieldsUnchanged
    /\ IF page < TotalPages
       THEN /\ page' = page + 1
            /\ Refresh(FALSE)
       ELSE NoEffect

PrevPage ==
    /\ Call("prev_page", "none")
    /\ QueryFieldsUnchanged
    /\ IF page > 1
       THEN /\ page' = page - 1
            /\ Refresh(FALSE)
       ELSE NoEffect

\* load_next_append that stops only past the last page
LoadNextAppendPastLast ==
    /\ Call("load_next_append", "none")
    /\ QueryFieldsUnchanged
    /\ IF page > TotalPages
       THEN NoEffect
       ELSE /\ page' = page + 1
            /\ Refresh(TRUE)

LoadNextAppend ==
    /\ Call("load_next_append", "none")
    /\ QueryFieldsUnchanged
    /\ IF page >= TotalPages
       THEN NoEffect
       ELSE /\ page' = page + 1
            /\ Refresh(TRUE)

(* ------------------------------------------------------------------ *)
(* Listener                                                            *)
(* ------------------------------------------------------------------ *)
\* SmartTableModel.append_rows
AppendRows(rs) == IF rs = <<>> THEN rows ELSE rows \o rs

\* SmartTableModel.reset_rows
ResetRows(rs) == rs

\* AppTable._apply_page_to_model: reads the controller's append_mode
ApplyPageToModel(pg, rid, tot, ld) ==
    /\ rows' = IF append_mode THEN AppendRows(pg.rows) ELSE ResetRows(pg.rows)
    /\ shown' = <<[page |-> pg, request_id |-> rid, append |-> append_mode,
                   total_rows |-> tot, loading |-> ld]>>

(* ------------------------------------------------------------------ *)
(* Completions                                                         *)
(* ------------------------------------------------------------------ *)
\* _on_ok publishing the page before it updates total_rows and loading
OnOkPublishesFirst(pg, rid) ==
    IF rid # request_id
    THEN /\ UNCHANGED <<total_rows, loading, rows, shown>>
         /\ emitted' = <<>>
    ELSE /\ ApplyPageToModel(pg, rid, total_rows, loading)
         /\ total_rows' = pg.total_rows
         /\ loading' = FALSE
         /\ emitted' = <<Changed(pg, rid)>>
                          \o (IF loading THEN <<LoadingChanged(FALSE)>> ELSE <<>>)

\* SmartTableController._on_ok(pg, rid); the signals are delivered to the
\* listener while they are emitted
OnOk(pg, rid) ==
    IF rid # request_id
    THEN /\ UNCHANGED <<total_rows, loading, rows, shown>>
         /\ emitted' = <<>>
    ELSE /\ total_rows' = pg.total_rows
         /\ EmitLoading(FALSE, <<Changed(pg, rid)>>)
         /\ ApplyPageToModel(pg, rid, total_rows', loading')

\* _on_fail that also forgets the row count of the last page
OnFailResetsTotal(exc, rid) ==
    IF rid # request_id
    THEN /\ UNCHANGED <<total_rows, loading, rows, shown>>
         /\ emitted' = <<>>
    ELSE /\ EmitLoading(FALSE, <<Error(exc)>>)
         /\ total_rows' = 0
         /\ UNCHANGED <<rows, shown>>

\* SmartTableController._on_fail(exc, rid)
OnFail(exc, rid) ==
    IF rid # request_id
    THEN /\ UNCHANGED <<total_rows, loading, rows, shown>>
         /\ emitted' = <<>>
    ELSE /\ EmitLoading(FALSE, <<Error(exc)>>)
         /\ UNCHANGED <<total_rows, rows, shown>>

\* the part of a completion step that is the same for ok and fail: the
\* task leaves the pool, no operation is called
Completion(t, name) ==
    /\ t \in pool
    /\ pool' = pool \ {t}
    /\ op' = name
    /\ arg' = t
    /\ UNCHANGED <<page, page_size, search_text, search_mode, case_sensitive,
                   accent_insensitive, filters, sort, searchable_keys,
                   request_id, append_mode, nCalls>>
    /\ UNCHANGED others

\* _FetchTask.run: fetch_page returned a page, the ok signal is delivered
FetchOk(t, total) ==
    /\ Completion(t, "on_ok")
    /\ OnOk(TablePage(t.query, total), t.request_id)

\* _FetchTask.run: fetch_page raised, the fail signal is delivered
FetchFail(t) ==
    /\ Completion(t, "on_fail")
    /\ OnFail("err", t.request_id)

(* ------------------------------------------------------------------ *)
(* Specification                                                       *)
(* ------------------------------------------------------------------ *)
Next ==
    \/ \E b \in BOOLEAN : RefreshCall(b)
    \/ \E p \in PageArgs : GotoPage(p)
    \/ \E k \in KeyLists : SetSearchableKeys(k)
    \/ \E n \in SizeArgs : SetPageSize(n)
    \/ \E a \in SearchArgs : SetSearch(a)
    \/ \E f \in FilterLists : SetFilters(f)
    \/ \E f \in FilterSpecs : AddFilter(f)
    \/ ClearFilters
    \/ \E s \in SortLists : SetSort(s)
    \/ NextPage
    \/ PrevPage
    \/ LoadNextAppend
    \/ \E t \in pool : \E n \in Totals : FetchOk(t, n)
    \/ \E t \in pool : FetchFail(t)

Spec == Init /\ [][Next]_vars

(* ------------------------------------------------------------------ *)
(* total_pages() evaluated in any state of the paging fields           *)
(* ------------------------------------------------------------------ *)
\* a controller whose last accepted page reported any total_rows >= 0 and
\* whose page size is any value set_page_size can leave
InitPages ==
    /\ page = 1
    /\ page_size \in (1..MaxSize) \cup {DefaultPageSize}
    /\ total_rows \in 0..MaxRows
    /\ search_text = <<>>
    /\ search_mode = "contem"
    /\ case_sensitive = FALSE
    /\ accent_insensitive = TRUE
    /\ filters = <<>>
    /\ sort = <<>>
    /\ searchable_keys = <<>>
    /\ request_id = 1
    /\ loading = FALSE
    /\ append_mode = FALSE
    /\ pool = {}
    /\ emitted = <<>>
    /\ rows = <<>>
    /\ shown = <<>>
    /\ op = "init"
    /\ arg = "none"
    /\ nCalls = 0
    /\ out = <<>>
    /\ NoExport
    /\ NoPort

\* a call of SmartTableController.total_pages()
TotalPagesCall ==
    /\ out = <<>>
    /\ out' = <<TotalPages>>
    /\ op' = "total_pages"
    /\ UNCHANGED <<ctl, pool, emitted, rows, shown, arg, nCalls>>
    /\ UNCHANGED <<xvars, port_rows>>

NextPages == TotalPagesCall

SpecPages == InitPages /\ [][NextPages]_vars

(* ------------------------------------------------------------------ *)
(* Export use case: app/core/use_cases/export_table.py                 *)
(* ------------------------------------------------------------------ *)
Min(a, b) == IF a <= b THEN a ELSE b

\* format keywords handed to execute
Fmts == { <<"p", "d", "f">>, <<" ", "P", "D", "F", " ">>, <<"c", "s", "v">>, <<>> }

\* str.lower on the characters of a format keyword
LowerFmtChar(c) ==
    CASE c = "P" -> "p" [] c = "D" -> "d" [] c = "F" -> "f"
      [] c = "X" -> "x" [] c = "L" -> "l" [] c = "S" -> "s" [] OTHER -> c

\* str.strip
RECURSIVE Strip(_)
Strip(f) ==
    IF f = <<>> THEN f
    ELSE IF Head(f) = " " THEN Strip(Tail(f))
    ELSE IF f[Len(f)] = " " THEN Strip(SubSeq(f, 1, Len(f) - 1))
    ELSE f

\* the keys of the registry AppTable builds
Registered == { <<"x", "l", "s", "x">>, <<"p", "d", "f">> }

\* ExporterRegistry.get: the key looked up
RegistryKey(f) == [i \in 1..Len(Strip(f)) |-> LowerFmtChar(Strip(f)[i])]

\* ExporterRegistry.get finds an exporter
RegistryHas(f) == RegistryKey(f) \in Registered

\* queries of export requests: TableQuery objects
ExportQueries ==
    { [page |-> 1, page_size |-> DefaultPageSize, search_text |-> <<>>,
       search_mode |-> "contem", search_case_sensitive |-> FALSE,
       search_accent_insensitive |-> TRUE, filters |-> <<>>, sort |-> <<>>,
       searchable_keys |-> <<>>],
      [page |-> 3, page_size |-> 2, search_text |-> <<"a">>,
       search_mode |-> "contem", search_case_sensitive |-> FALSE,
       search_accent_insensitive |-> TRUE,
       filters |-> <<[key |-> "active", op |-> "igual", value |-> "true"]>>,
       sort |-> <<[key |-> "name", ascending |-> TRUE]>>,
       searchable_keys |-> <<"name">>] }

Modes == {"current_page", "all_results"}

\* ExportRequest
ExportRequests ==
    [query : ExportQueries, mode : Modes, fmt : Fmts,
     chunk_page_size : 1..MaxChunk, destination_path : {"out"}]

\* row lists handed to execute as current_page_rows
PageRowLists == { <<>>, <<7>>, <<7, 8, 9>> }

\* the outcome of one fetch_page call of the data source: it raises, or it
\* returns a page of k rows, 0 <= k <= page_size
Raise == -1
Outcomes == {Raise} \cup (0..MaxChunk)

\* a call of data_port.fetch_page(q), its outcome, and the number of
\* controller calls made before it
Fetch(q, o) == [query |-> q, outcome |-> o, at |-> nCalls]

\* _with_page building a new query of the same class from page and page_size
\* alone: every other field takes its default
WithPageFromDefaults(q, p, ps) ==
    [page |-> p, page_size |-> ps, search_text |-> <<>>,
     search_mode |-> "contem", search_case_sensitive |-> FALSE,
     search_accent_insensitive |-> TRUE, filters |-> <<>>, sort |-> <<>>,
     searchable_keys |-> <<>>]

\* ExportTableUseCase._with_page
WithPage(q, p, ps) == [q EXCEPT !.page = p, !.page_size = ps]

\* number of rows of the slice (page-1)*page_size .. page*page_size of a
\* list of n rows
TrueCount(n, q) == Max(0, Min(q.page_size, n - (q.page - 1) * q.page_size))

\* the page a data source of n matching rows returns when it answers with k
\* rows: rows are named by their position in the list of matching rows
PortPage(n, q, k) ==
    [rows |-> [i \in 1..k |-> (q.page - 1) * q.page_size + i],
     total_rows |-> n, page |-> q.page, page_size |-> q.page_size]

\* a progress call that reports the rows done in both places
ProgressWithoutTotal(d, t) ==
    IF progress THEN Append(progress_calls, <<d, d>>) ELSE progress_calls

\* progress(d, t), when a callback is given
Progress(d, t) ==
    IF progress THEN Append(progress_calls, <<d, t>>) ELSE progress_calls

\* execute raises before anything is fetched or exported
InputError(e) ==
    /\ x_pc' = "failed"
    /\ x_error' = e
    /\ UNCHANGED <<first_page, x_total, gen, fetch_log, progress_calls, consistent>>

\* execute looking the exporter up only when it is about to call it
ExecuteLooksUpExporterLast(o) ==
    /\ x_pc = "called"
    /\ UNCHANGED <<gridvars, out, port_rows>>
    /\ UNCHANGED <<req, data_port, current_page_rows, progress, chunk_pg, done,
                   chunk_no, idx, exported, result, yielded, exporter_calls>>
    /\ IF req.mode = "current_page"
       THEN IF current_page_rows = <<>>
            THEN InputError("current_page_rows")
            ELSE /\ x_total' = Len(current_page_rows[1])
                 /\ progress_calls' = Progress(0, x_total')
                 /\ gen' = "page_new"
                 /\ x_pc' = IF RegistryHas(req.fmt) THEN "export" ELSE "failed"
                 /\ x_error' = IF RegistryHas(req.fmt) THEN x_error ELSE "format"
                 /\ UNCHANGED <<first_page, fetch_log, consistent>>
       ELSE IF data_port = <<>>
            THEN InputError("data_port")
            ELSE LET q == WithPage(req.query, 1, req.chunk_page_size) IN
                 /\ o <= req.chunk_page_size
                 /\ fetch_log' = Append(fetch_log, Fetch(q, o))
                 /\ IF o = Raise
                    THEN /\ x_pc' = "failed"
                         /\ x_error' = "fetch_page"
                         /\ consistent' = FALSE
                         /\ UNCHANGED <<first_page, x_total, gen, progress_calls>>
                    ELSE /\ first_page' = <<PortPage(data_port[1], q, o)>>
                         /\ x_total' = first_page'[1].total_rows
                         /\ progress_calls' = Progress(0, x_total')
                         /\ gen' = "all_new"
                         /\ x_pc' = IF RegistryHas(req.fmt) THEN "export" ELSE "failed"
                         /\ x_error' = IF RegistryHas(req.fmt) THEN x_error ELSE "format"
                         /\ consistent' = (o = TrueCount(data_port[1], q))

\* ExportTableUseCase.execute up to the call of exporter.export; o is the
\* outcome of the fetch of the first page
Execute(o) ==
    /\ x_pc = "called"
    /\ UNCHANGED <<gridvars, out, port_rows>>
    /\ UNCHANGED <<req, data_port, current_page_rows, progress, chunk_pg, done,
                   chunk_no, idx, exported, result, yielded, exporter_calls>>
    /\ IF ~RegistryHas(req.fmt)
       THEN InputError("format")
       ELSE IF req.mode = "current_page"
       THEN IF current_page_rows = <<>>
            THEN InputError("current_page_rows")
            ELSE /\ x_total' = Len(current_page_rows[1])
                 /\ progress_calls' = Progress(0, x_total')
                 /\ gen' = "page_new"
                 /\ x_pc' = "export"
                 /\ UNCHANGED <<x_error, first_page, fetch_log, consistent>>
       ELSE IF data_port = <<>>
            THEN InputError("data_port")
            ELSE LET q == WithPage(req.query, 1, req.chunk_page_size) IN
                 /\ o <= req.chunk_page_size
                 /\ fetch_log' = Append(fetch_log, Fetch(q, o))
                 /\ IF o = Raise
                    THEN /\ x_pc' = "failed"
                         /\ x_error' = "fetch_page"
                         /\ consistent' = FALSE
                         /\ UNCHANGED <<first_page, x_total, gen, progress_calls>>
                    ELSE /\ first_page' = <<PortPage(data_port[1], q, o)>>
                         /\ x_total' = first_page'[1].total_rows
                         /\ progress_calls' = Progress(0, x_total')
                         /\ gen' = "all_new"
                         /\ x_pc' = "export"
                         /\ consistent' = (o = TrueCount(data_port[1], q))
                         /\ UNCHANGED x_error

\* _iter_current_page reporting progress before it counts the row
IterCurrentPageProgressEarly ==
    LET rs == current_page_rows[1]
        d1 == IF gen = "page_new" THEN 0 ELSE done + 1
        i == IF gen = "page_new" THEN 1 ELSE idx + 1
    IN /\ done' = d1
       /\ progress_calls' = IF gen = "page" THEN Progress(done, Len(rs))
                                             ELSE progress_calls
       /\ IF i <= Len(rs)
          THEN /\ yielded' = Append(yielded, rs[i])
               /\ gen' = "page"
               /\ idx' = i
          ELSE /\ gen' = "exhausted"
               /\ UNCHANGED <<yielded, idx>>
       /\ UNCHANGED <<chunk_pg, chunk_no, fetch_log, consistent>>

\* ExportTableUseCase._iter_current_page resumed by next()
IterCurrentPage ==
    LET rs == current_page_rows[1]
        d1 == IF gen = "page_new" THEN 0 ELSE done + 1
        i == IF gen = "page_new" THEN 1 ELSE idx + 1
    IN /\ done' = d1
       /\ progress_calls' = IF gen = "page" THEN Progress(d1, Len(rs))
                                             ELSE progress_calls
       /\ IF i <= Len(rs)
          THEN /\ yielded' = Append(yielded, rs[i])
               /\ gen' = "page"
               /\ idx' = i
          ELSE /\ gen' = "exhausted"
               /\ UNCHANGED <<yielded, idx>>
       /\ UNCHANGED <<chunk_pg, chunk_no, fetch_log, consistent>>

\* the while loop with the test `done <= total`
NextChunkOffByOne(cn, d1, o) ==
    /\ chunk_no' = cn
    /\ IF d1 <= x_total
       THEN LET q == WithPage(req.query, cn, req.chunk_page_size) IN
            /\ o <= req.chunk_page_size
            /\ fetch_log' = Append(fetch_log, Fetch(q, o))
            /\ IF o = Raise
               THEN /\ gen' = "raised"
                    /\ consistent' = FALSE
                    /\ UNCHANGED <<chunk_pg, yielded, idx>>
               ELSE /\ chunk_pg' = <<PortPage(data_port[1], q, o)>>
                    /\ consistent' = (consistent /\ o = TrueCount(data_port[1], q))
                    /\ IF chunk_pg'[1].rows = <<>>
                       THEN /\ gen' = "exhausted"
                            /\ UNCHANGED <<yielded, idx>>
                       ELSE /\ yielded' = Append(yielded, chunk_pg'[1].rows[1])
                            /\ gen' = "chunk"
                            /\ idx' = 1
       ELSE /\ gen' = "exhausted"
            /\ UNCHANGED <<chunk_pg, fetch_log, yielded, idx, consistent>>

\* _iter_all_results: the while loop entered with page = cn and done = d1
NextChunk(cn, d1, o) ==
    /\ chunk_no' = cn
    /\ IF d1 < x_total
       THEN LET q == WithPage(req.query, cn, req.chunk_page_size) IN
            /\ o <= req.chunk_page_size
            /\ fetch_log' = Append(fetch_log, Fetch(q, o))
            /\ IF o = Raise
               THEN /\ gen' = "raised"
                    /\ consistent' = FALSE
                    /\ UNCHANGED <<chunk_pg, yielded, idx>>
               ELSE /\ chunk_pg' = <<PortPage(data_port[1], q, o)>>
                    /\ consistent' = (consistent /\ o = TrueCount(data_port[1], q))
                    /\ IF chunk_pg'[1].rows = <<>>
                       THEN /\ gen' = "exhausted"
                            /\ UNCHANGED <<yielded, idx>>
                       ELSE /\ yielded' = Append(yielded, chunk_pg'[1].rows[1])
                            /\ gen' = "chunk"
                            /\ idx' = 1
       ELSE /\ gen' = "exhausted"
            /\ UNCHANGED <<chunk_pg, fetch_log, yielded, idx, consistent>>

\* _iter_all_results fetching page 2 ahead, when it hands over the last row
\* of the first page
IterAllResultsFetchesAhead(o) ==
    LET d1 == IF gen = "all_new" THEN 0 ELSE done + 1
        i == IF gen = "all_new" THEN 1 ELSE idx + 1
    IN /\ done' = d1
       /\ progress_calls' = IF gen = "all_new" THEN progress_calls
                                                ELSE Progress(d1, x_total)
       /\ IF gen \in {"all_new", "first"}
          THEN IF i <= Len(first_page[1].rows)
               THEN /\ yielded' = Append(yielded, first_page[1].rows[i])
                    /\ gen' = "first"
                    /\ idx' = i
                    /\ o <= req.chunk_page_size
                    /\ fetch_log' =
                         IF i = Len(first_page[1].rows)
                         THEN Append(fetch_log,
                                     Fetch(WithPage(req.query, 2, req.chunk_page_size), o))
                         ELSE fetch_log
                    /\ UNCHANGED <<chunk_pg, chunk_no, consistent>>
               ELSE NextChunk(2, d1, o)
          ELSE IF i <= Len(chunk_pg[1].rows)
               THEN /\ yielded' = Append(yielded, chunk_pg[1].rows[i])
                    /\ gen' = "chunk"
                    /\ idx' = i
                    /\ UNCHANGED <<chunk_pg, chunk_no, fetch_log, consistent>>
               ELSE NextChunk(chunk_no + 1, d1, o)

\* _iter_all_results starting its loop at page 1: the first page is
\* fetched and exported a second time
IterAllResultsFromFirst(o) ==
    LET d1 == IF gen = "all_new" THEN 0 ELSE done + 1
        i == IF gen = "all_new" THEN 1 ELSE idx + 1
    IN /\ done' = d1
       /\ progress_calls' = IF gen = "all_new" THEN progress_calls
                                                ELSE Progress(d1, x_total)
       /\ IF gen \in {"all_new", "first"}
          THEN IF i <= Len(first_page[1].rows)
               THEN /\ yielded' = Append(yielded, first_page[1].rows[i])
                    /\ gen' = "first"
                    /\ idx' = i
                    /\ UNCHANGED <<chunk_pg, chunk_no, fetch_log, consistent>>
               ELSE NextChunk(1, d1, o)
          ELSE IF i <= Len(chunk_pg[1].rows)
               THEN /\ yielded' = Append(yielded, chunk_pg[1].rows[i])
                    /\ gen' = "chunk"
                    /\ idx' = i
                    /\ UNCHANGED <<chunk_pg, chunk_no, fetch_log, consistent>>
               ELSE NextChunk(chunk_no + 1, d1, o)

\* ExportTableUseCase._iter_all_results resumed by next(); o is the
\* outcome of the fetch it makes, if it makes one
IterAllResults(o) ==
    LET d1 == IF gen = "all_new" THEN 0 ELSE done + 1
        i == IF gen = "all_new" THEN 1 ELSE idx + 1
    IN /\ done' = d1
       /\ progress_calls' = IF gen = "all_new" THEN progress_calls
                                                ELSE Progress(d1, x_total)
       /\ IF gen \in {"all_new", "first"}
          THEN IF i <= Len(first_page[1].rows)
               THEN /\ yielded' = Append(yielded, first_page[1].rows[i])
                    /\ gen' = "first"
                    /\ idx' = i
                    /\ UNCHANGED <<chunk_pg, chunk_no, fetch_log, consistent>>
               ELSE NextChunk(2, d1, o)
          ELSE IF i <= Len(chunk_pg[1].rows)
               THEN /\ yielded' = Append(yielded, chunk_pg[1].rows[i])
                    /\ gen' = "chunk"
                    /\ idx' = i
                    /\ UNCHANGED <<chunk_pg, chunk_no, fetch_log, consistent>>
               ELSE NextChunk(chunk_no + 1, d1, o)

\* what an export step leaves alone
ExportFrame ==
    /\ UNCHANGED <<gridvars, out, port_rows>>
    /\ UNCHANGED <<req, data_port, current_page_rows, progress, first_page, x_total>>

\* exporter.export is called with the row generator
ExporterBegin ==
    /\ x_pc = "export"
    /\ x_pc' = "consuming"
    /\ exporter_calls' = exporter_calls + 1
    /\ exported' = 0
    /\ ExportFrame
    /\ UNCHANGED <<x_error, chunk_pg, done, chunk_no, gen, idx, result,
                   fetch_log, yielded, progress_calls, consistent>>

\* an exporter that takes an exception of the row generator for its end
ExporterNextSwallowsRaise(o) ==
    /\ x_pc = "consuming"
    /\ ExportFrame
    /\ UNCHANGED <<result, exporter_calls>>
    /\ IF gen \in {"page_new", "page"} THEN IterCurrentPage ELSE IterAllResults(o)
    /\ IF gen' \in {"raised", "exhausted"}
       THEN /\ x_pc' = "saving"
            /\ UNCHANGED <<x_error, exported>>
       ELSE /\ x_pc' = "consuming"
            /\ exported' = exported + 1
            /\ UNCHANGED x_error

\* the exporter's `for r in rows` asks for the next row and writes it
ExporterNext(o) ==
    /\ x_pc = "consuming"
    /\ ExportFrame
    /\ UNCHANGED <<result, exporter_calls>>
    /\ IF gen \in {"page_new", "page"} THEN IterCurrentPage ELSE IterAllResults(o)
    /\ IF gen' = "raised"
       THEN /\ x_pc' = "failed"
            /\ x_error' = "fetch_page"
            /\ UNCHANGED exported
       ELSE IF gen' = "exhausted"
       THEN /\ x_pc' = "saving"
            /\ UNCHANGED <<x_error, exported>>
       ELSE /\ x_pc' = "consuming"
            /\ exported' = exported + 1
            /\ UNCHANGED x_error

\* the exporter saves the document and returns; execute returns its result
ExporterFinish ==
    /\ x_pc = "saving"
    /\ x_pc' = "returned"
    /\ result' = <<[path |-> req.destination_path, rows_exported |-> exported]>>
    /\ ExportFrame
    /\ UNCHANGED <<x_error, chunk_pg, done, chunk_no, gen, idx, exported,
                   fetch_log, yielded, progress_calls, exporter_calls, consistent>>

\* the exporter raises, before, between or after the rows
ExporterFail ==
    /\ x_pc \in {"consuming", "saving"}
    /\ x_pc' = "failed"
    /\ x_error' = "exporter"
    /\ ExportFrame
    /\ UNCHANGED <<chunk_pg, done, chunk_no, gen, idx, exported, result,
                   fetch_log, yielded, progress_calls, exporter_calls, consistent>>

\* execute has just been called with any request and arguments
InitExport ==
    /\ ControllerInit
    /\ out = <<>>
    /\ req \in ExportRequests
    /\ data_port \in {<<>>} \cup {<<n>> : n \in 0..MaxExportRows}
    /\ current_page_rows \in {<<>>} \cup {<<r>> : r \in PageRowLists}
    /\ progress \in BOOLEAN
    /\ x_pc = "called"
    /\ x_error = ""
    /\ first_page = <<>>
    /\ chunk_pg = <<>>
    /\ x_total = 0
    /\ done = 0
    /\ chunk_no = 0
    /\ gen = "none"
    /\ idx = 0
    /\ exported = 0
    /\ result = <<>>
    /\ fetch_log = <<>>
    /\ yielded = <<>>
    /\ progress_calls = <<>>
    /\ exporter_calls = 0
    /\ consistent = TRUE
    /\ NoPort

NextExport ==
    \/ \E o \in Outcomes : Execute(o)
    \/ ExporterBegin
    \/ \E o \in Outcomes : ExporterNext(o)
    \/ ExporterFinish
    \/ ExporterFail

SpecExport == InitExport /\ [][NextExport]_vars

\* the thread running execute keeps running while it has a step to take
SpecExportLive == SpecExport /\ WF_vars(NextExport)

(* ------------------------------------------------------------------ *)
(* The grid with its export menu: AppTable._export starts the use case  *)
(* on the pool while the controller goes on serving the user            *)
(* ------------------------------------------------------------------ *)
\* controller calls in a behaviour of the grid with an export
MaxGridCalls == 1

\* chunk_page_size of the exports the grid starts (1000 in AppTable._export),
\* scaled to the row counts of the data source
MaxGridChunk == 1

\* snapshot_query handing out the raw search text instead of the query the
\* controller fetches with
SnapshotQueryRaw == [MakeQuery EXCEPT !.search_text = search_text]

\* SmartTableController.snapshot_query
SnapshotQuery == MakeQuery

\* AppTable._export(fmt, mode) with a destination chosen: refused while the
\* controller is loading; the export button is disabled until the export
\* ends.  The controller's data source holds MaxTotal rows matching the
\* snapshot.
StartExport ==
    /\ x_pc = "idle"
    /\ ~loading
    /\ \E m \in Modes, f \in Registered :
          /\ req' = [query |-> SnapshotQuery, mode |-> m, fmt |-> f,
                      chunk_page_size |-> MaxGridChunk, destination_path |-> "out"]
          /\ current_page_rows' = IF m = "current_page" THEN <<rows>> ELSE <<>>
    /\ data_port' = <<MaxTotal>>
    /\ progress' = TRUE
    /\ x_pc' = "called"
    /\ UNCHANGED <<gridvars, out, port_rows>>
    /\ UNCHANGED <<x_error, first_page, chunk_pg, x_total, done, chunk_no, gen,
                   idx, exported, result, fetch_log, yielded, progress_calls,
                   exporter_calls, consistent>>

\* the controller serves the user while the export task runs on the pool;
\* the data source answers the export with pages of 1..chunk_page_size rows
NextGrid ==
    \/ Next /\ nCalls' <= MaxGridCalls
    \/ StartExport
    \/ \E o \in 1..MaxGridChunk : Execute(o)
    \/ ExporterBegin
    \/ \E o \in 1..MaxGridChunk : ExporterNext(o)
    \/ ExporterFinish

SpecGrid == Init /\ [][NextGrid]_vars

(* ------------------------------------------------------------------ *)
(* The reference data source: InMemoryTablePort                         *)
(* ------------------------------------------------------------------ *)
\* rows of a data source
MaxPortRows == 3

\* cell values: None, a number, a string
None == [t |-> "none", n |-> 0, s |-> <<>>]
Num(k) == [t |-> "num", n |-> k, s |-> <<>>]
Str(x) == [t |-> "str", n |-> 0, s |-> x]
Bool(b) == [t |-> "bool", n |-> IF b THEN 1 ELSE 0, s |-> <<>>]

\* the rows data sources are made of; a missing key reads as None
PortRowPool ==
    { [city |-> Str(<<"a">>), name |-> Str(<<"A'">>), age |-> Num(2),
       active |-> Bool(TRUE)],
      [city |-> Str(<<"b">>), name |-> None, age |-> Num(1),
       active |-> Bool(TRUE)],
      [city |-> None, name |-> Str(<<"a", "b">>), age |-> None,
       active |-> Bool(FALSE)],
      [city |-> Str(<<"a">>), name |-> Str(<<"a", "b">>), age |-> Num(1),
       active |-> Bool(TRUE)] }

\* the row lists InMemoryTablePort is constructed with
PortData == UNION { [1..n -> PortRowPool] : n \in 0..MaxPortRows }

\* the queries handed to fetch_page: page, page_size >= 1, no regex search,
\* comparisons within one type
PortQueries ==
    [page : 1..2, page_size : {1, MaxPortRows},
     search_text : { <<>>, <<"a">> },
     search_mode : {"contem"},
     search_case_sensitive : {FALSE},
     search_accent_insensitive : {TRUE},
     filters : { <<>>,
                 <<[key |-> "age", op |-> "gt", value |-> Num(1)]>>,
                 <<[key |-> "city", op |-> "igual", value |-> Str(<<"a">>)]>>,
                 <<[key |-> "active", op |-> "igual", value |-> Bool(TRUE)]>>,
                 <<[key |-> "active", op |-> "equals", value |-> Bool(TRUE)]>> },
     sort : { <<>>,
              <<[key |-> "city", ascending |-> TRUE]>>,
              <<[key |-> "city", ascending |-> FALSE]>>,
              <<[key |-> "age", ascending |-> FALSE]>>,
              <<[key |-> "city", ascending |-> TRUE],
                [key |-> "name", ascending |-> TRUE]>>,
              <<[key |-> "city", ascending |-> FALSE],
                [key |-> "name", ascending |-> TRUE]>> },
     searchable_keys : { <<>>, <<"name">> }]

\* str() of a number 0..9
Digit(k) == <<"0", "1", "2", "3", "4", "5", "6", "7", "8", "9">>[k + 1]

\* _safe_str
SafeStr(v) ==
    CASE v.t = "none" -> <<>>
      [] v.t = "num" -> <<Digit(v.n)>>
      [] v.t = "bool" -> IF v.n = 1 THEN <<"T", "r", "u", "e">>
                                    ELSE <<"F", "a", "l", "s", "e">>
      [] OTHER -> v.s

\* order of the characters by code point
CharRank(c) ==
    CASE c = "A" -> 1 [] c = "a" -> 2 [] c = "b" -> 3
      [] c = "A'" -> 4 [] c = "a'" -> 5 [] OTHER -> 0

\* str < str
RECURSIVE StrLess(_, _)
StrLess(x, y) ==
    IF y = <<>> THEN FALSE
    ELSE IF x = <<>> THEN TRUE
    ELSE IF Head(x) = Head(y) THEN StrLess(Tail(x), Tail(y))
    ELSE CharRank(Head(x)) < CharRank(Head(y))

\* str.startswith
IsPrefix(x, y) == Len(x) <= Len(y) /\ SubSeq(y, 1, Len(x)) = x

\* x in y
Contains(y, x) ==
    \E k \in 0..(Len(y) - Len(x)) : SubSeq(y, k + 1, k + Len(x)) = x

\* InMemoryTablePort._norm_cell of a row
NormCell(r, k, cs, ai) ==
    IF ~cs /\ ai THEN NormText(Lower(SafeStr(r[k])), TRUE)
    ELSE LET v == SafeStr(r[k])
             v1 == IF ~cs THEN Lower(v) ELSE v
         IN IF ai THEN NormText(v1, TRUE) ELSE v1

\* fetch_page, text search: whether row r is kept
MatchNorm(base, q) ==
    CASE q.search_mode = "igual" -> base = q.search_text
      [] q.search_mode = "comeca" -> IsPrefix(q.search_text, base)
      [] OTHER -> Contains(base, q.search_text)

SearchKeeps(r, q) ==
    LET ks == IF q.searchable_keys # <<>>
              THEN {q.searchable_keys[j] : j \in 1..Len(q.searchable_keys)}
              ELSE DOMAIN r
    IN \E k \in ks :
          MatchNorm(NormCell(r, k, q.search_case_sensitive,
                             q.search_accent_insensitive), q)

\* v > w and v < w on values of one type
ValLess(v, w) == IF v.t \in {"num", "bool"} THEN v.n < w.n ELSE StrLess(v.s, w.s)

\* fetch_page, one filter: whether row r is kept
FilterKeeps(r, f) ==
    CASE f.op = "igual" -> r[f.key] = f.value
      [] f.op = "contem" ->
           Contains(NormCell(r, f.key, FALSE, TRUE),
                    NormText(Lower(SafeStr(f.value)), TRUE))
      [] f.op = "gt" -> r[f.key] # None /\ ValLess(f.value, r[f.key])
      [] f.op = "lt" -> r[f.key] # None /\ ValLess(r[f.key], f.value)
      [] OTHER -> TRUE

\* fetch_page: the indexes left by the search and by every filter, in order
RECURSIVE KeptIdxs(_, _, _)
KeptIdxs(idxs, data, q) ==
    IF idxs = <<>> THEN <<>>
    ELSE LET r == data[Head(idxs)]
             keep == /\ (q.search_text # <<>> => SearchKeeps(r, q))
                     /\ \A j \in 1..Len(q.filters) : FilterKeeps(r, q.filters[j])
         IN (IF keep THEN <<Head(idxs)>> ELSE <<>>) \o KeptIdxs(Tail(idxs), data, q)

\* fetch_page.sort_key
SortKey(v) ==
    CASE v.t = "none" -> [tag |-> 1, n |-> 0, s |-> <<>>]
      [] v.t \in {"num", "bool"} -> [tag |-> 0, n |-> v.n, s |-> <<>>]
      [] OTHER -> [tag |-> 0, n |-> 0, s |-> NormText(Lower(SafeStr(v)), TRUE)]

\* tuple comparison of two sort keys
KeyLess(a, b) ==
    \/ a.tag < b.tag
    \/ a.tag = b.tag /\ (a.n < b.n \/ (a.n = b.n /\ StrLess(a.s, b.s)))

\* sorted(idxs, key=..., reverse=rev): element i goes strictly before e
GoesBefore(i, e, data, k, rev) ==
    IF rev THEN KeyLess(SortKey(data[e][k]), SortKey(data[i][k]))
           ELSE KeyLess(SortKey(data[i][k]), SortKey(data[e][k]))

\* sorted is stable, with reverse too: i is put behind its equals
RECURSIVE InsertStable(_, _, _, _, _)
InsertStable(sq, i, data, k, rev) ==
    IF sq = <<>> THEN <<i>>
    ELSE IF GoesBefore(i, Head(sq), data, k, rev) THEN <<i>> \o sq
    ELSE <<Head(sq)>> \o InsertStable(Tail(sq), i, data, k, rev)

RECURSIVE Sorted(_, _, _, _)
Sorted(idxs, data, k, rev) ==
    IF idxs = <<>> THEN <<>>
    ELSE InsertStable(Sorted(SubSeq(idxs, 1, Len(idxs) - 1), data, k, rev),
                      idxs[Len(idxs)], data, k, rev)

\* the sort passes made in the order of the list: the last entry wins
RECURSIVE ApplySortForward(_, _, _)
ApplySortForward(idxs, data, sl) ==
    IF sl = <<>> THEN idxs
    ELSE ApplySortForward(Sorted(idxs, data, Head(sl).key, ~Head(sl).ascending),
                          data, Tail(sl))

\* fetch_page: `for srt in reversed(query.sort)`
RECURSIVE ApplySort(_, _, _)
ApplySort(idxs, data, sl) ==
    IF sl = <<>> THEN idxs
    ELSE Sorted(ApplySort(idxs, data, Tail(sl)), data,
                Head(sl).key, ~Head(sl).ascending)

\* fetch_page: the filtered and sorted indexes
ResultIdxs(data, q) ==
    ApplySort(KeptIdxs([i \in 1..Len(data) |-> i], data, q), data, q.sort)

\* fetch_page taking the page number as 0-based
FetchPageZeroBased(data, q) ==
    LET idxs == ResultIdxs(data, q)
        start == q.page * q.page_size
        page_idxs == SubSeq(idxs, start + 1, Min(start + q.page_size, Len(idxs)))
    IN [rows |-> [j \in 1..Len(page_idxs) |-> data[page_idxs[j]]],
        total_rows |-> Len(idxs), page |-> q.page, page_size |-> q.page_size]

\* InMemoryTablePort.fetch_page
FetchPage(data, q) ==
    LET idxs == ResultIdxs(data, q)
        start == (q.page - 1) * q.page_size
        page_idxs == SubSeq(idxs, start + 1, Min(start + q.page_size, Len(idxs)))
    IN [rows |-> [j \in 1..Len(page_idxs) |-> data[page_idxs[j]]],
        total_rows |-> Len(idxs), page |-> q.page, page_size |-> q.page_size]

\* a data source constructed over any row list
InitPort ==
    /\ ControllerInit
    /\ out = <<>>
    /\ NoExport
    /\ port_rows \in PortData

\* a call of fetch_page(q)
FetchPageCall(q) ==
    /\ out = <<>>
    /\ out' = <<FetchPage(port_rows, q)>>
    /\ op' = "fetch_page"
    /\ arg' = q
    /\ UNCHANGED <<ctl, pool, emitted, rows, shown, nCalls>>
    /\ UNCHANGED <<xvars, port_rows>>

NextPort == \E q \in PortQueries : FetchPageCall(q)

SpecPort == InitPort /\ [][NextPort]_vars

(* ------------------------------------------------------------------ *)
(* Infinite scroll: the grid is shown from its first page and grown    *)
(* only by load_next_append                                            *)
(* ------------------------------------------------------------------ *)
\* the first call goes to page 1 (goto_page(p) with p <= 1, or set_page_size,
\* set_sort or set_filters, which end with goto_page(1)); every later call is
\* load_next_append, made at any moment; fetches complete or fail at any
\* moment
NextScroll ==
    \/ nCalls = 0 /\ \E p \in PageArgs : p <= 1 /\ GotoPage(p)
    \/ nCalls = 0 /\ \E n \in SizeArgs : SetPageSize(n)
    \/ nCalls = 0 /\ \E s \in SortLists : SetSort(s)
    \/ nCalls = 0 /\ \E f \in FilterLists : SetFilters(f)
    \/ nCalls >= 1 /\ LoadNextAppend
    \/ \E t \in pool : \E n \in Totals : FetchOk(t, n)
    \/ \E t \in pool : FetchFail(t)

SpecScroll == Init /\ [][NextScroll]_vars

(* ------------------------------------------------------------------ *)
(* Vocabulary of the properties                                        *)
(* ------------------------------------------------------------------ *)
\* the step is a call of one of the named controller operations
IsCall(names) == nCalls' = nCalls + 1 /\ op' \in names

\* the step is the handling of a completion of the named kind
IsCompletion(name) == op' = name /\ pool' # pool /\ nCalls' = nCalls

\* the operations that reset the page before fetching
SetOps == {"set_search", "set_filters", "add_filter", "clear_filters",
           "set_sort", "set_page_size", "set_searchable_keys"}

\* the operations that always end in refresh
RefreshingOps == SetOps \cup {"refresh", "goto_page"}

\* the signals of a kind among those the last handler emitted
Emitted(kind) == {i \in 1..Len(emitted) : emitted[i].sig = kind}

\* the last step handled a successful completion and published its page
Published == op = "on_ok" /\ Emitted("changed") # {}

\* the search fields of a query are those _make_query builds now
SearchOf(q) == <<q.search_text, q.search_mode, q.search_case_sensitive,
                 q.search_accent_insensitive>>

(* ------------------------------------------------------------------ *)
(* C3                                                                  *)
(* ------------------------------------------------------------------ *)
\* C3: every call of refresh, goto_page or a set_* operation increments the
\* request id by exactly one, sets loading and dispatches exactly one fetch
\* tagged with the new id and carrying the query built from the state at
\* that moment, also when an earlier fetch is still in flight.
C3_EveryCallDispatches ==
    [][IsCall(RefreshingOps) =>
         /\ request_id' = request_id + 1
         /\ loading' = TRUE
         /\ \E t \in pool' :
               /\ t \notin pool
               /\ pool' = pool \cup {t}
               /\ t.request_id = request_id'
               /\ t.query = MakeQuery']_vars

(* ------------------------------------------------------------------ *)
(* C4                                                                  *)
(* ------------------------------------------------------------------ *)
\* C4: once every dispatched fetch has completed, the page published last
\* was fetched with the query built from the arguments of the most recent
\* set_search call (the controller's search fields are those arguments).
C4_LastSearchWins ==
    (Published /\ pool = {}) => SearchOf(arg.query) = SearchOf(MakeQuery)

(* ------------------------------------------------------------------ *)
(* C5                                                                  *)
(* ------------------------------------------------------------------ *)
\* C5: each call of set_search, set_filters, add_filter, clear_filters,
\* set_sort, set_page_size or set_searchable_keys leaves the current page
\* equal to 1, with or without a fetch in flight.
C5_SetOpsResetPage == [][IsCall(SetOps) => page' = 1]_vars

\* a set_search call made while the fetch of page 2 was in flight
C5_Witness ==
    /\ op = "set_search"
    /\ page = 1
    /\ \E t \in pool : t.query.page = 2

(* ------------------------------------------------------------------ *)
(* C6                                                                  *)
(* ------------------------------------------------------------------ *)
\* C6: load_next_append called on the last page (page >= total_pages)
\* dispatches no fetch and changes nothing: controller state, pool and
\* listener are unchanged and no signal is emitted.
C6_AppendAtLastPageIsNoOp ==
    [][(IsCall({"load_next_append"}) /\ page >= TotalPages) =>
         /\ UNCHANGED <<ctl, pool, rows, shown>>
         /\ emitted' = <<>>]_vars

\* load_next_append was called on the last page of a listing of several
\* pages, with no fetch in flight
C6_Witness ==
    /\ op = "load_next_append"
    /\ ~loading
    /\ pool = {}
    /\ page = TotalPages
    /\ page > 1

(* ------------------------------------------------------------------ *)
(* C7                                                                  *)
(* ------------------------------------------------------------------ *)
\* C7: load_next_append called when page < total_pages advances the page by
\* one and dispatches a fetch in append mode, and every published page is
\* applied by the listener with the append flag recorded at the dispatch of
\* its request.
C7_AppendAdvancesAndFetches ==
    /\ [][(IsCall({"load_next_append"}) /\ page < TotalPages) =>
            /\ page' = page + 1
            /\ \E t \in pool' \ pool :
                  /\ t.append
                  /\ t.request_id = request_id'
                  /\ t.query.page = page']_vars
    /\ [](Published => shown[1].append = arg.append)

(* ------------------------------------------------------------------ *)
(* C8                                                                  *)
(* ------------------------------------------------------------------ *)
\* C8: when a fetch carrying the current request id fails, the controller
\* clears loading, emits exactly one error and no page, dispatches nothing,
\* and leaves total_rows, page, page size, the search/filter/sort state and
\* the page shown by the listener as they were.
C8_FailureKeepsState ==
    [][(IsCompletion("on_fail") /\ arg'.request_id = request_id) =>
         /\ loading' = FALSE
         /\ Cardinality({i \in 1..Len(emitted') : emitted'[i].sig = "error"}) = 1
         /\ \A i \in 1..Len(emitted') : emitted'[i].sig # "changed"
         /\ pool' \subseteq pool
         /\ UNCHANGED <<page, page_size, total_rows, search_text, search_mode,
                        case_sensitive, accent_insensitive, filters, sort,
                        searchable_keys, request_id, rows, shown>>]_vars

\* a fetch failed after a page with rows had been shown
C8_Witness ==
    /\ op = "on_fail"
    /\ Emitted("error") # {}
    /\ shown # <<>>
    /\ total_rows > 0
    /\ rows # <<>>

(* ------------------------------------------------------------------ *)
(* C9                                                                  *)
(* ------------------------------------------------------------------ *)
\* C9: loading is true exactly when a fetch tagged with the current request
\* id is dispatched and not yet handled; only the handling of a completion
\* clears it (no timeout), a handled failure leaves it false, and a refresh
\* called when it is false dispatches a new fetch.
C9_LoadingIffCurrentFetchPending ==
    /\ [](loading <=> (\E t \in pool : t.request_id = request_id))
    /\ [][/\ (loading /\ ~loading') => (op' \in {"on_ok", "on_fail"} /\ pool' # pool)
          /\ (IsCompletion("on_fail") /\ arg'.request_id = request_id) => ~loading'
          /\ (IsCall({"refresh"}) /\ ~loading) =>
                (loading' /\ \E t \in pool' \ pool : t.request_id = request_id')]_vars

\* the first fetch failed (nothing was ever shown) and a refresh called
\* after it dispatched the second fetch
C9_Witness ==
    /\ op = "refresh"
    /\ loading
    /\ request_id = 2
    /\ shown = <<>>
    /\ pool # {}

(* ------------------------------------------------------------------ *)
(* C10                                                                 *)
(* ------------------------------------------------------------------ *)
\* C10: after any sequence of operations with arbitrary integer arguments
\* page >= 1 and page_size >= 1, in the controller and in every query it
\* dispatches.
C10_PageAndSizePositive ==
    /\ page >= 1
    /\ page_size >= 1
    /\ \A t \in pool : t.query.page >= 1 /\ t.query.page_size >= 1

\* set_page_size was called with a number below 1 and dispatched a fetch
C10_Witness ==
    /\ op = "set_page_size"
    /\ arg < 1
    /\ page_size = 1
    /\ \E t \in pool : t.request_id = request_id /\ t.query.page_size = 1

(* ------------------------------------------------------------------ *)
(* C11                                                                 *)
(* ------------------------------------------------------------------ *)
\* C11: for total_rows >= 0 and page_size >= 1, total_pages() is
\* max(1, ceil(total_rows / page_size)): the least k >= 1 with
\* k * page_size >= total_rows; it is 1 when total_rows is 0, never 0.
C11_TotalPagesIsCeiling ==
    (op = "total_pages") =>
        /\ out[1] >= 1
        /\ out[1] * page_size >= total_rows
        /\ (out[1] > 1 => (out[1] - 1) * page_size < total_rows)
        /\ (total_rows = 0 => out[1] = 1)

\* total_pages() was called with a total that is not a multiple of the
\* page size
C11_Witness ==
    /\ op = "total_pages"
    /\ total_rows = 5
    /\ page_size = 2
    /\ out = <<3>>

(* ------------------------------------------------------------------ *)
(* C12: an all_results export over a data source that answers every    *)
(* fetch with the true slice of its N matching rows, with chunk size   *)
(* c, hands the exporter the rows 1..N once each and in order, makes   *)
(* exactly max(1, ceil(N / c)) fetches, and its last progress call is  *)
(* (N, N).                                                              *)
(* ------------------------------------------------------------------ *)
C12_AllResultsExportsEveryRowOnce ==
    (x_pc \in {"saving", "returned"} /\ req.mode = "all_results" /\ consistent) =>
        LET N == data_port[1] IN
        /\ yielded = [i \in 1..N |-> i]
        /\ exported = N
        /\ (x_pc = "returned" => result[1].rows_exported = N)
        /\ Len(fetch_log) = Max(1, Ceil(N, req.chunk_page_size))
        /\ (progress => progress_calls[Len(progress_calls)] = <<N, N>>)

\* 5 rows in chunks of 2: three fetches of 2, 2 and 1 rows
C12_Witness ==
    /\ x_pc = "returned" /\ req.mode = "all_results" /\ consistent
    /\ data_port = <<5>> /\ req.chunk_page_size = 2 /\ progress
    /\ [i \in 1..Len(fetch_log) |-> fetch_log[i].outcome] = <<2, 2, 1>>
    /\ yielded = <<1, 2, 3, 4, 5>>
    /\ progress_calls[Len(progress_calls)] = <<5, 5>>

(* ------------------------------------------------------------------ *)
(* C13: an all_results export ends, in a result or in a failure.  The  *)
(* chunk loop fetches a chunk only while fewer rows than the total of  *)
(* the first page were yielded, a chunk of zero rows ends the          *)
(* generator at once, and the export that ended on such a chunk        *)
(* reports fewer rows than the total.                                   *)
(* ------------------------------------------------------------------ *)
\* the step makes a fetch of the chunk loop
ChunkFetched == Len(fetch_log) >= 1 /\ Len(fetch_log') = Len(fetch_log) + 1

\* the last fetch was made by the chunk loop and returned no rows
EndedOnEmptyChunk ==
    Len(fetch_log) >= 2 /\ fetch_log[Len(fetch_log)].outcome = 0

\* C13: the export ends; a chunk is fetched only while done < total, an empty
\* chunk ends the generator, and the export then reports fewer rows than total.
C13_AllResultsTerminates ==
    /\ <>(x_pc \in {"returned", "failed"})
    /\ [][ChunkFetched => done' < x_total]_vars
    /\ [][(ChunkFetched /\ fetch_log'[Len(fetch_log')].outcome = 0)
             => (gen' = "exhausted" /\ x_pc' = "saving")]_vars
    /\ []((x_pc \in {"saving", "returned"} /\ EndedOnEmptyChunk)
             => /\ exported < x_total
                /\ (x_pc = "returned" => result[1].rows_exported < x_total))

\* 5 rows reported, the second chunk comes back empty: 2 rows exported
C13_Witness ==
    /\ x_pc = "returned" /\ req.mode = "all_results"
    /\ x_total = 5 /\ EndedOnEmptyChunk
    /\ result[1].rows_exported = 2

(* ------------------------------------------------------------------ *)
(* C14: a current_page export of n given rows never calls the data     *)
(* source; once the generator is exhausted the exporter was handed     *)
(* exactly the given rows in the given order, rows_exported is n and   *)
(* the last progress call is (n, n).                                    *)
(* ------------------------------------------------------------------ *)
C14_CurrentPageExportsGivenRows ==
    (req.mode = "current_page") =>
        /\ fetch_log = <<>>
        /\ (x_pc \in {"saving", "returned"} =>
               LET n == Len(current_page_rows[1]) IN
               /\ yielded = current_page_rows[1]
               /\ exported = n
               /\ (x_pc = "returned" => result[1].rows_exported = n)
               /\ (progress => progress_calls[Len(progress_calls)] = <<n, n>>))

\* three rows given, a data source at hand all the same
C14_Witness ==
    /\ x_pc = "returned" /\ req.mode = "current_page"
    /\ current_page_rows = <<(<<7, 8, 9>>)>> /\ data_port = <<5>> /\ progress
    /\ result[1].rows_exported = 3
    /\ progress_calls[Len(progress_calls)] = <<3, 3>>

(* ------------------------------------------------------------------ *)
(* C15: when the format keyword is not registered, or the mode is      *)
(* current_page and no rows are given, or the mode is all_results and  *)
(* no data source is given, execute fails in its first step with that  *)
(* error, and no fetch, no exporter call and no progress call was      *)
(* made.                                                                *)
(* ------------------------------------------------------------------ *)
\* the arguments of execute carry one of the three input errors
BadInput ==
    \/ ~RegistryHas(req.fmt)
    \/ req.mode = "current_page" /\ current_page_rows = <<>>
    \/ req.mode = "all_results" /\ data_port = <<>>

\* C15: with an input error execute has failed after its first step, with
\* nothing fetched, no exporter call and no progress call.
C15_InputErrorsFailAtOnce ==
    (x_pc \notin {"idle", "called"} /\ BadInput) =>
        /\ x_pc = "failed"
        /\ x_error \in {"format", "current_page_rows", "data_port"}
        /\ result = <<>>
        /\ fetch_log = <<>>
        /\ exporter_calls = 0
        /\ progress_calls = <<>>

\* an unregistered format with a data source and a progress callback given
C15_Witness ==
    /\ x_pc = "failed" /\ x_error = "format"
    /\ req.fmt = <<"c", "s", "v">> /\ req.mode = "all_results"
    /\ data_port = <<5>> /\ progress
    /\ fetch_log = <<>> /\ progress_calls = <<>>

(* ------------------------------------------------------------------ *)
(* C16: during an all_results export the pages the use case holds      *)
(* (the first page, referenced by execute and by the generator until   *)
(* they return, and the chunk the loop is iterating) have together at  *)
(* most chunk_page_size rows.                                           *)
(* ------------------------------------------------------------------ *)
\* number of fetched rows referenced by first_page and pg
Held ==
    (IF first_page = <<>> THEN 0 ELSE Len(first_page[1].rows))
      + (IF chunk_pg = <<>> THEN 0 ELSE Len(chunk_pg[1].rows))

\* C16: in an all_results export the rows held never exceed chunk_page_size.
C16_HoldsAtMostOneChunk ==
    (req.mode = "all_results") => Held <= req.chunk_page_size

(* ------------------------------------------------------------------ *)
(* C17                                                                 *)
(* ------------------------------------------------------------------ *)
\* the fields of a query other than page and page_size
SameResultSet(q1, q2) ==
    /\ q1.search_text = q2.search_text
    /\ q1.search_mode = q2.search_mode
    /\ q1.search_case_sensitive = q2.search_case_sensitive
    /\ q1.search_accent_insensitive = q2.search_accent_insensitive
    /\ q1.filters = q2.filters
    /\ q1.sort = q2.sort
    /\ q1.searchable_keys = q2.searchable_keys

\* C17: the i-th query an all_results export sends to the data source is the
\* request's query in every field but page and page_size, with page = i and
\* page_size = chunk_page_size; no step of the export changes the request.
C17_ChunkQueriesKeepTheQuery ==
    /\ [](\A i \in 1..Len(fetch_log) :
            /\ SameResultSet(fetch_log[i].query, req.query)
            /\ fetch_log[i].query.page = i
            /\ fetch_log[i].query.page_size = req.chunk_page_size
            /\ DOMAIN fetch_log[i].query = DOMAIN req.query)
    /\ [][req' = req]_vars

\* three chunks fetched for a request whose query has a search text, a
\* filter, a sort entry and its own page and page size
C17_Witness ==
    /\ Len(fetch_log) = 3
    /\ req.query.page = 3 /\ req.query.page_size = 2 /\ req.chunk_page_size = 1
    /\ req.query.filters # <<>> /\ req.query.sort # <<>>
    /\ fetch_log[3].query.page = 3 /\ fetch_log[3].query.page_size = 1

(* ------------------------------------------------------------------ *)
(* C18                                                                 *)
(* ------------------------------------------------------------------ *)
\* some fetch_page call of the export raised
FetchRaised == \E i \in 1..Len(fetch_log) : fetch_log[i].outcome = Raise

\* C18: once a fetch_page call or the exporter has raised, execute has
\* failed with that error and returns no result; the fetch that raised is
\* the last one, and after the failure nothing is fetched, yielded or
\* returned any more.
C18_FailureAbortsExport ==
    /\ [](FetchRaised =>
            /\ x_pc = "failed" /\ x_error = "fetch_page" /\ result = <<>>
            /\ \A i \in 1..Len(fetch_log) :
                   fetch_log[i].outcome = Raise => i = Len(fetch_log))
    /\ [](x_error = "exporter" => (x_pc = "failed" /\ result = <<>>))
    /\ [][x_pc = "failed" =>
            UNCHANGED <<x_pc, x_error, result, fetch_log, yielded, exported,
                        progress_calls>>]_vars

\* the fetch of the second chunk raised after the first chunk was exported
C18_Witness ==
    /\ x_pc = "failed" /\ x_error = "fetch_page"
    /\ req.mode = "all_results"
    /\ Len(fetch_log) = 2 /\ fetch_log[2].outcome = Raise
    /\ yielded = <<1, 2>> /\ result = <<>>

(* ------------------------------------------------------------------ *)
(* C19                                                                 *)
(* ------------------------------------------------------------------ *)
\* the step is AppTable._export starting an export
ExportStarts == x_pc = "idle" /\ x_pc' = "called"

\* the step is a call of a controller operation or the handling of a fetch
ControllerActs == nCalls' # nCalls \/ pool' # pool \/ ctl' # ctl

\* the rows of the pages the data source answered the export with, in order
RECURSIVE FetchedRows(_)
FetchedRows(log) ==
    IF log = <<>> THEN <<>>
    ELSE LET f == log[Len(log)] IN
         FetchedRows(SubSeq(log, 1, Len(log) - 1))
           \o [j \in 1..Max(0, f.outcome) |->
                  (f.query.page - 1) * f.query.page_size + j]

\* C19: an export started from the grid carries the query the controller
\* would fetch with at that moment and a copy of the rows shown; while it
\* runs, controller operations and fetch completions change neither the
\* request, nor the fetches made, nor the rows yielded; every chunk query
\* keeps the search, filters and sort of the snapshot, the rows yielded are
\* the rows of the pages fetched with these queries (the rows copied at the
\* start, for current_page), and no step of the export changes the
\* controller, its pool or the rows of the grid.
C19_ExportUsesSnapshot ==
    /\ [][ExportStarts =>
            /\ req'.query = MakeQuery
            /\ (req'.mode = "current_page" => current_page_rows' = <<rows>>)]_vars
    /\ [][x_pc # "idle" =>
            (req' = req /\ current_page_rows' = current_page_rows)]_vars
    /\ [][ControllerActs =>
            UNCHANGED <<x_pc, fetch_log, yielded, gen, result>>]_vars
    /\ [](x_pc # "idle" =>
            /\ \A i \in 1..Len(fetch_log) :
                   /\ SameResultSet(fetch_log[i].query, req.query)
                   /\ fetch_log[i].query.page = i
            /\ (req.mode = "all_results" =>
                   yielded = SubSeq(FetchedRows(fetch_log), 1, Len(yielded)))
            /\ (req.mode = "current_page" =>
                   yielded = SubSeq(current_page_rows[1], 1, Len(yielded))))
    /\ [][xvars' # xvars => UNCHANGED <<ctl, pool, rows, shown>>]_vars

\* a search was set after the first chunk was fetched; the later chunks were
\* fetched with the snapshot all the same
C19_Witness ==
    /\ x_pc = "returned" /\ req.mode = "all_results"
    /\ Len(fetch_log) = 3
    /\ fetch_log[1].at = 0 /\ fetch_log[2].at = 1
    /\ search_text # <<>> /\ req.query.search_text = <<>>
    /\ loading /\ request_id = 1
    /\ fetch_log[3].query.search_text = <<>>
    /\ yielded = <<1, 2, 3>>

(* ------------------------------------------------------------------ *)
(* C20                                                                 *)
(* ------------------------------------------------------------------ *)
\* the whole result of the query of the last fetch_page call, in order
Result == [j \in 1..Len(ResultIdxs(port_rows, arg)) |->
              port_rows[ResultIdxs(port_rows, arg)[j]]]

\* C20: in the result of a query with a sort list, no row whose value of
\* the first sort field is None stands before a row that has a value
\* there, whether that entry is ascending or descending.
C20_NoneSortsLast ==
    (op = "fetch_page" /\ arg.sort # <<>>) =>
        LET k == arg.sort[1].key IN
        \A i, j \in 1..Len(Result) :
            (i < j /\ Result[i][k] = None) => Result[j][k] = None

(* ------------------------------------------------------------------ *)
(* C21                                                                 *)
(* ------------------------------------------------------------------ *)
\* the names under which a query carries the equality operator: the one
\* fetch_page knows and the one MainWindow hands to set_filters
EqualsOps == {"igual", "equals"}

\* the query of the last call filters on active = True and searches a text
ActiveAndSearch ==
    /\ op = "fetch_page"
    /\ arg.search_text # <<>>
    /\ \E j \in 1..Len(arg.filters) :
          /\ arg.filters[j].key = "active"
          /\ arg.filters[j].op \in EqualsOps
          /\ arg.filters[j].value = Bool(TRUE)

\* C21: for a query with the filter active equals true and a search text,
\* every row returned is active and matches the text, and total_rows counts
\* exactly the rows of the data source that are active and match the text.
C21_FilterAndSearch ==
    ActiveAndSearch =>
        /\ \A j \in 1..Len(out[1].rows) :
              /\ out[1].rows[j].active = Bool(TRUE)
              /\ SearchKeeps(out[1].rows[j], arg)
        /\ out[1].total_rows =
              Cardinality({i \in 1..Len(port_rows) :
                              /\ port_rows[i].active = Bool(TRUE)
                              /\ SearchKeeps(port_rows[i], arg)})

(* ------------------------------------------------------------------ *)
(* C22                                                                 *)
(* ------------------------------------------------------------------ *)
\* rows i and j of the data source have equal keys on entry e of a sort list
SameOn(i, j, e) == SortKey(port_rows[i][e.key]) = SortKey(port_rows[j][e.key])

\* row i belongs strictly before row j by entry e, in its direction
FirstOn(i, j, e) ==
    IF e.ascending
    THEN KeyLess(SortKey(port_rows[i][e.key]), SortKey(port_rows[j][e.key]))
    ELSE KeyLess(SortKey(port_rows[j][e.key]), SortKey(port_rows[i][e.key]))

\* row i belongs strictly before row j by the sort list sl, its first entry
\* being the most significant
LexFirst(i, j, sl) ==
    \E m \in 1..Len(sl) :
        /\ \A m1 \in 1..(m - 1) : SameOn(i, j, sl[m1])
        /\ FirstOn(i, j, sl[m])

\* C22: in the filtered and sorted list of a query, no row stands behind a
\* row it precedes by the sort list read with its first entry as the most
\* significant, and rows equal on every sort field stand in the order of the
\* data source.
C22_FirstEntryMostSignificant ==
    (op = "fetch_page") =>
        LET ix == ResultIdxs(port_rows, arg) IN
        \A a, b \in 1..Len(ix) :
            a < b =>
                /\ ~LexFirst(ix[b], ix[a], arg.sort)
                /\ ((\A m \in 1..Len(arg.sort) : SameOn(ix[a], ix[b], arg.sort[m]))
                      => ix[a] < ix[b])

\* sort [city ascending, name ascending] over two rows of city a, given with
\* the greater name first, and a row of city b: the names are put in order
\* within the city
C22_Witness ==
    /\ op = "fetch_page"
    /\ arg.sort = <<[key |-> "city", ascending |-> TRUE],
                    [key |-> "name", ascending |-> TRUE]>>
    /\ arg.filters = <<>> /\ arg.search_text = <<>>
    /\ Len(port_rows) = 3
    /\ port_rows[1].city = Str(<<"b">>)
    /\ port_rows[2].city = Str(<<"a">>) /\ port_rows[2].name = Str(<<"a", "b">>)
    /\ port_rows[3].city = Str(<<"a">>) /\ port_rows[3].name = Str(<<"A'">>)
    /\ ResultIdxs(port_rows, arg) = <<3, 2, 1>>

(* ------------------------------------------------------------------ *)
(* C23                                                                 *)
(* ------------------------------------------------------------------ *)
\* the rows of the pages 1..n of query q, one after the other
RECURSIVE PagesUpTo(_, _)
PagesUpTo(q, n) ==
    IF n = 0 THEN <<>>
    ELSE PagesUpTo(q, n - 1) \o FetchPage(port_rows, [q EXCEPT !.page = n]).rows

\* C23: the page returned for a query holds exactly the elements of the
\* filtered and sorted list at the positions (page-1)*page_size (exclusive)
\* to page*page_size, at most page_size of them; total_rows is the length of
\* that list on every page, and the pages 1..ceil(total_rows/page_size) put
\* one after the other are that list.
C23_PageIsSliceOfResult ==
    (op = "fetch_page") =>
        LET pg == out[1]
            first == (arg.page - 1) * arg.page_size
        IN /\ Len(pg.rows) <= arg.page_size
           /\ Len(pg.rows) = Max(0, Min(arg.page_size, Len(Result) - first))
           /\ \A j \in 1..Len(pg.rows) : pg.rows[j] = Result[first + j]
           /\ pg.total_rows = Len(Result)
           /\ \A p \in 1..Ceil(pg.total_rows, arg.page_size) :
                 FetchPage(port_rows, [arg EXCEPT !.page = p]).total_rows
                   = pg.total_rows
           /\ PagesUpTo(arg, Ceil(pg.total_rows, arg.page_size)) = Result

\* the second page of size 1 of three rows
C23_Witness ==
    /\ op = "fetch_page"
    /\ arg.page = 2 /\ arg.page_size = 1
    /\ arg.filters = <<>> /\ arg.search_text = <<>> /\ arg.sort = <<>>
    /\ Len(port_rows) = 3 /\ port_rows[1] # port_rows[2]
    /\ out[1].rows = <<port_rows[2]>>
    /\ out[1].total_rows = 3

(* ------------------------------------------------------------------ *)
(* C24                                                                 *)
(* ------------------------------------------------------------------ *)
\* C24: the handling of a successful fetch that carries the current request
\* id sets total_rows to the total of the page and clears loading, emits
\* loading_changed(false) and then changed(page, id), each once and nothing
\* else, and the listener that receives the page reads the new total_rows
\* and loading = false from the controller.
C24_OkUpdatesThenPublishes ==
    [][(IsCompletion("on_ok") /\ arg'.request_id = request_id) =>
         /\ Len(emitted') = 2
         /\ emitted'[1].sig = "loading_changed"
         /\ emitted'[1].arg = FALSE
         /\ emitted'[2].sig = "changed"
         /\ emitted'[2].arg[2] = request_id
         /\ emitted'[2].arg[1].page = arg'.query.page
         /\ total_rows' = emitted'[2].arg[1].total_rows
         /\ loading' = FALSE
         /\ shown'[1].page = emitted'[2].arg[1]
         /\ shown'[1].total_rows = emitted'[2].arg[1].total_rows
         /\ shown'[1].loading = FALSE]_vars

\* a page of MaxTotal rows arrived after a page of none had been shown
C24_Witness ==
    /\ op = "on_ok"
    /\ Len(emitted) = 2
    /\ emitted[1].sig = "loading_changed" /\ emitted[2].sig = "changed"
    /\ total_rows = MaxTotal
    /\ shown[1].total_rows = MaxTotal /\ ~shown[1].loading
    /\ request_id = 2

-----------------------------------------------------------------------------
\* the calls progress(0, t), progress(1, t), ..., progress(n, t)
ProgressSeq(n, t) == [i \in 1..(n + 1) |-> <<i - 1, t>>]

\* the total given to the progress callback: the row count of the given
\* page, or total_rows of the first fetched chunk
GivenTotal ==
    IF req.mode = "current_page" THEN Len(current_page_rows[1])
                                 ELSE first_page[1].total_rows

\* the row generator is suspended at a yield: the exporter holds the row and
\* has not asked for the next one
Suspended == gen \in {"page", "first", "chunk"}

\* rows the exporter has consumed: it has asked for the row after them
Consumed == Len(yielded) - (IF Suspended THEN 1 ELSE 0)

\* C25: with a progress callback, the calls observed are (0,T), (1,T), ...,
\* (n,T) in this order, one more for each row the exporter has consumed, T
\* being the row count of the given page or total_rows of the first chunk;
\* when the exporter has taken all n rows handed to it the last call is (n,T)
C25_ProgressCountsRows ==
    (progress /\ gen # "none") =>
        /\ progress_calls = ProgressSeq(Consumed, GivenTotal)
        /\ (x_pc \in {"saving", "returned"} =>
               /\ Consumed = exported
               /\ progress_calls[Len(progress_calls)] = <<exported, GivenTotal>>)

C25_Witness ==
    /\ x_pc = "returned"
    /\ progress
    /\ req.mode = "all_results"
    /\ Len(fetch_log) = 2
    /\ exported = 3
    /\ progress_calls = <<<<0, 3>>, <<1, 3>>, <<2, 3>>, <<3, 3>>>>

-----------------------------------------------------------------------------
\* C26: at most one fetch of the controller is in flight, the fetch in
\* flight carries the controller's current request id (so no completion
\* takes the stale-result branch), and no step taken while loading is true
\* dispatches a fetch.
C26_AtMostOneFetchInFlight ==
    [][/\ Cardinality(pool') <= 1
       /\ \A t \in pool' : t.request_id = request_id'
       /\ (loading => pool' \subseteq pool)
       /\ (IsCompletion("on_ok") \/ IsCompletion("on_fail")
             => arg'.request_id = request_id)]_vars

\* a second refreshing call was made while the first fetch was in flight
C26_Witness ==
    /\ nCalls = 2
    /\ op \in RefreshingOps
    /\ loading
    /\ request_id = 1
    /\ Cardinality(pool) = 1

-----------------------------------------------------------------------------
\* C27: in infinite-scroll use, when a page has just been shown and no fetch
\* is in flight, the rows shown are the rows of pages 1, 2, ..., k in order,
\* none skipped or repeated, k being the controller's current page (the data
\* source reporting MaxTotal rows throughout).
C27_ScrollShowsPagesInOrder ==
    (op = "on_ok" /\ pool = {} /\ total_rows = MaxTotal) =>
        rows = [i \in 1..page |-> i]

-----------------------------------------------------------------------------
\* C28: whenever no fetch is in flight, 1 <= page <= total_pages().
C28_PageWithinTotalPages ==
    (pool = {}) => (1 <= page /\ page <= TotalPages)

\* C28, as amended: page >= 1 in every state; next_page and load_next_append
\* leave the page alone or move it to page + 1 <= total_pages(), total_pages()
\* being read when they are called; prev_page moves it to max(1, page - 1);
\* goto_page(n) moves it to max(1, n) whatever total_pages() is; a fetch
\* completion never moves it.
C28_PagingStepsStayInRange ==
    [][/\ page' >= 1
       /\ (IsCall({"next_page", "load_next_append"}) =>
             \/ page' = page
             \/ (page' = page + 1 /\ page' <= TotalPages))
       /\ (IsCall({"prev_page"}) => page' = Max(1, page - 1))
       /\ (IsCall({"goto_page"}) => page' = Max(1, arg'))
       /\ (IsCompletion("on_ok") \/ IsCompletion("on_fail") => page' = page)]_vars

\* next_page has moved to the last of two pages and fetches it
C28_Witness ==
    /\ op = "next_page"
    /\ page = 2
    /\ TotalPages = 2
    /\ pool # {}

-----------------------------------------------------------------------------
\* positions of the loading_changed notifications emitted by the step
LoadingSignals == {i \in 1..Len(emitted') : emitted'[i].sig = "loading_changed"}

\* C29: the loading_changed notifications alternate, starting with true: a
\* step emits at most one, it carries the new value of the loading flag and
\* that value differs from the old one, the flag never changes without a
\* notification, and the flag is false until the first fetch is dispatched.
C29_LoadingChangedAlternates ==
    [][/\ Cardinality(LoadingSignals) <= 1
       /\ \A i \in LoadingSignals :
             emitted'[i].arg = loading' /\ loading' # loading
       /\ (loading' # loading => LoadingSignals # {})
       /\ (request_id = 0 => ~loading)]_vars

\* loading_changed(true) is emitted for the second time, after a false
C29_Witness ==
    /\ request_id = 2
    /\ loading
    /\ emitted = <<LoadingChanged(TRUE)>>
    /\ op \in RefreshingOps

-----------------------------------------------------------------------------
\* C30: in an all_results export the first fetch is the fetch of page 1, made
\* by execute before the exporter is called; every later fetch is made while
\* the exporter asks for a row, is the fetch of the next page, and is made
\* only when every row of the pages fetched before has been handed to the
\* exporter and taken by it; when the exporter is not asking for a row (it
\* has failed, or is saving, or has returned) nothing is fetched.
C30_ChunksFetchedOnDemand ==
    [][(req.mode = "all_results") =>
         /\ (exporter_calls' # exporter_calls =>
               /\ Len(fetch_log) = 1
               /\ fetch_log[1].query.page = 1
               /\ fetch_log' = fetch_log)
         /\ ((Len(fetch_log) = 0 /\ fetch_log' # fetch_log) =>
               /\ x_pc = "called"
               /\ exporter_calls = 0
               /\ Len(fetch_log') = 1
               /\ fetch_log'[1].query.page = 1)
         /\ (ChunkFetched =>
               /\ x_pc = "consuming"
               /\ fetch_log'[Len(fetch_log')].query.page = Len(fetch_log) + 1
               /\ yielded = FetchedRows(fetch_log)
               /\ exported = Len(yielded))
         /\ (x_pc \notin {"called", "consuming"} => fetch_log' = fetch_log)
         /\ Len(fetch_log') <= Len(fetch_log) + 1]_vars

\* the exporter failed on the third of five rows, in the second chunk: the
\* third chunk is never fetched
C30_Witness ==
    /\ req.mode = "all_results"
    /\ x_pc = "failed" /\ x_error = "exporter"
    /\ data_port = <<5>> /\ req.chunk_page_size = 2
    /\ exported = 3
    /\ Len(fetch_log) = 2
    /\ fetch_log[2].query.page = 2

====
